---- MODULE Spec2Model ----
(***************************************************************************)
(* Model of emails_traiders.py: main() runs process_traders (identifier    *)
(* cross-reference, traders.txt + traders.json -> traders.csv) and then    *)
(* extract_emails (email harvesting, 1000_efrsb_messages.json ->           *)
(* emails.json).                                                           *)
(*                                                                         *)
(* A Python str is a sequence of characters, each a one-character string,  *)
(* or "U+XXXX" for a code point a string constant cannot hold.  A parsed   *)
(* JSON value is a record [t, s, n, keys, kids] whose tag t is one of      *)
(* "str", "num", "bool", "null", "list", "dict"; a dict lists its field    *)
(* names in keys and the matching values in kids, in iteration order.      *)
(***************************************************************************)
EXTENDS Integers, Sequences, FiniteSets, TLC

VARIABLES entry, pc, files, raised, stdout, stderr,
          inn_list, organizations, org_index, idx,
          messages, publishers_emails,
          calls, obj, strings

vars == <<entry, pc, files, raised, stdout, stderr, inn_list, organizations,
          org_index, idx, messages, publishers_emails, calls, obj, strings>>

-----------------------------------------------------------------------------
(* Bounds of the inputs.                                                   *)

MaxLines == 2

MaxOrgs == 2

MaxMsgs == 3

MaxNodes == 4

(* The interpreter's limit on nested calls (sys.getrecursionlimit()),      *)
(* which the program leaves at its default; it bounds the recursion of     *)
(* collect_strings.                                                        *)
RecursionLimit == 1000

-----------------------------------------------------------------------------
(* Characters.                                                             *)

Letters ==
    {"a","b","c","d","e","f","g","h","i","j","k","l","m",
     "n","o","p","q","r","s","t","u","v","w","x","y","z",
     "A","B","C","D","E","F","G","H","I","J","K","L","M",
     "N","O","P","Q","R","S","T","U","V","W","X","Y","Z"}

Digits == {"0","1","2","3","4","5","6","7","8","9"}

(* The characters str.strip() removes: those for which str.isspace().      *)
Whitespace ==
    {"\t", "\n", "U+000B", "\f", "\r", "U+001C", "U+001D", "U+001E", "U+001F",
     " ", "U+0085", "U+00A0", "U+1680", "U+2000", "U+2001", "U+2002", "U+2003",
     "U+2004", "U+2005", "U+2006", "U+2007", "U+2008", "U+2009", "U+200A",
     "U+2028", "U+2029", "U+202F", "U+205F", "U+3000"}

HexDigits == Digits \cup {"A", "B", "C", "D", "E", "F"}

(* The lone surrogates U+D800..U+DFFF: json.load accepts their escapes,    *)
(* the utf-8 codec of the output files refuses to encode them.             *)
Surrogates ==
    {"U+D" \o a \o b \o c :
        a \in {"8", "9", "A", "B", "C", "D", "E", "F"}, b \in HexDigits, c \in HexDigits}

(* str.encode('utf-8') succeeds on the text.                               *)
Encodable(chars) == \A i \in DOMAIN chars : chars[i] \notin Surrogates

-----------------------------------------------------------------------------
(* Parsed JSON values.                                                     *)

Str(chars) == [t |-> "str", s |-> chars, n |-> 0, keys |-> <<>>, kids |-> <<>>]

Num(k) == [t |-> "num", s |-> <<>>, n |-> k, keys |-> <<>>, kids |-> <<>>]

Bool(k) == [t |-> "bool", s |-> <<>>, n |-> k, keys |-> <<>>, kids |-> <<>>]

Null == [t |-> "null", s |-> <<>>, n |-> 0, keys |-> <<>>, kids |-> <<>>]

List(items) == [t |-> "list", s |-> <<>>, n |-> 0, keys |-> <<>>, kids |-> items]

Dict(names, values) ==
    [t |-> "dict", s |-> <<>>, n |-> 0, keys |-> names, kids |-> values]

(* v inside k lists, one inside the other: [[...[v]...]].  The levels are  *)
(* counted, not spelled out: n is the number of one-element lists between  *)
(* the outermost list and v.                                               *)
Nested(v, k) ==
    IF k = 0 THEN v
    ELSE [t |-> "list", s |-> <<>>, n |-> k - 1, keys |-> <<>>, kids |-> <<v>>]

(* bool(v): None, "", 0, False, [] and {} are false, the rest is true.      *)
Truthy(v) ==
    CASE v.t = "str"  -> v.s # <<>>
      [] v.t = "num"  -> v.n # 0
      [] v.t = "bool" -> v.n # 0
      [] v.t = "null" -> FALSE
      [] OTHER        -> v.kids # <<>>

(* Lists and dicts are unhashable: using one as a dict key raises TypeError. *)
Hashable(v) == v.t \notin {"list", "dict"}

(* a == b on hashable JSON values: True == 1 and False == 0, a str equals   *)
(* only the same str, None only None.                                      *)
PyEq(a, b) ==
    IF a.t \in {"num", "bool"} /\ b.t \in {"num", "bool"}
    THEN a.n = b.n
    ELSE a = b

(* record.get(name): the value of the field, or None when it is absent.    *)
Get(rec, name) ==
    IF \E i \in 1..Len(rec.keys) : rec.keys[i] = name
    THEN rec.kids[CHOOSE i \in 1..Len(rec.keys) : rec.keys[i] = name]
    ELSE Null

HasField(rec, name) == \E i \in 1..Len(rec.keys) : rec.keys[i] = name

-----------------------------------------------------------------------------
(* Python dicts built by the program: a sequence of [k, v] entries in       *)
(* insertion order, with pairwise unequal keys.                            *)

DictHas(d, key) == \E i \in 1..Len(d) : PyEq(d[i].k, key)

DictPos(d, key) == CHOOSE i \in 1..Len(d) : PyEq(d[i].k, key)

DictGet(d, key) == d[DictPos(d, key)].v

(* d[key] = value: an equal key keeps its place and its first key object.  *)
DictSet(d, key, value) ==
    IF DictHas(d, key)
    THEN [d EXCEPT ![DictPos(d, key)].v = value]
    ELSE Append(d, [k |-> key, v |-> value])

-----------------------------------------------------------------------------
(* str.strip(): leading and trailing whitespace removed.                   *)

RECURSIVE LStrip(_)
LStrip(s) ==
    IF s # <<>> /\ Head(s) \in Whitespace THEN LStrip(Tail(s)) ELSE s

RECURSIVE RStrip(_)
RStrip(s) ==
    IF s # <<>> /\ s[Len(s)] \in Whitespace
    THEN RStrip(SubSeq(s, 1, Len(s) - 1))
    ELSE s

Strip(s) == RStrip(LStrip(s))

(* str(k) of a non-negative int: its decimal digits.                       *)
DigitChar(d) ==
    CASE d = 0 -> "0" [] d = 1 -> "1" [] d = 2 -> "2" [] d = 3 -> "3"
      [] d = 4 -> "4" [] d = 5 -> "5" [] d = 6 -> "6" [] d = 7 -> "7"
      [] d = 8 -> "8" [] d = 9 -> "9"

RECURSIVE IntToStr(_)
IntToStr(k) ==
    IF k < 10 THEN <<DigitChar(k)>>
    ELSE Append(IntToStr(k \div 10), DigitChar(k % 10))

-----------------------------------------------------------------------------
(* find_emails_in_text: EMAIL_REGEX.findall(text) with                     *)
(*   [A-Za-z0-9._%+-]+@[A-Za-z0-9.-]+\.[A-Za-z]{2,}                         *)

LocalChars == Letters \cup Digits \cup {".", "_", "%", "+", "-"}

DomainChars == Letters \cup Digits \cup {".", "-"}

AllIn(text, from, to, class) == \A j \in from..to : text[j] \in class

SetMax(S) == CHOOSE x \in S : \A y \in S : y <= x

(* Lengths a greedy quantifier can take at position i of the text.         *)
LocalLens(text, i) ==
    {l \in 1..(Len(text) - i + 1) :
        /\ AllIn(text, i, i + l - 1, LocalChars)
        /\ i + l <= Len(text)
        /\ text[i + l] = "@"}

DomainLens(text, i) ==
    {d \in 1..(Len(text) - i + 1) :
        /\ AllIn(text, i, i + d - 1, DomainChars)
        /\ i + d <= Len(text)
        /\ text[i + d] = "."}

TldLens(text, i) ==
    {t \in 2..(Len(text) - i + 1) : AllIn(text, i, i + t - 1, Letters)}

(* The match the backtracking engine finds at start position i: each       *)
(* quantifier is greedy, so the first success is the one with the longest  *)
(* local part, then the longest domain, then the longest letter suffix.    *)
(* The result is the index of the last matched character, 0 for no match.  *)
DomainOk(text, i) == {d \in DomainLens(text, i) : TldLens(text, i + d + 1) # {}}

LocalOk(text, i) == {l \in LocalLens(text, i) : DomainOk(text, i + l + 1) # {}}

MatchEnd(text, i) ==
    IF LocalOk(text, i) = {} THEN 0
    ELSE LET l  == SetMax(LocalOk(text, i))
             ds == i + l + 1
             d  == SetMax(DomainOk(text, ds))
             ts == ds + d + 1
             t  == SetMax(TldLens(text, ts))
         IN  ts + t - 1

(* findall: leftmost match first, the scan resumes after each match.       *)
RECURSIVE FindFrom(_, _)
FindFrom(text, i) ==
    IF i > Len(text) THEN <<>>
    ELSE LET e == MatchEnd(text, i)
         IN  IF e = 0 THEN FindFrom(text, i + 1)
             ELSE <<SubSeq(text, i, e)>> \o FindFrom(text, e + 1)

find_emails_in_text(text) == FindFrom(text, 1)

-----------------------------------------------------------------------------
(* collect_strings: every string value of the structure, depth first.      *)

RECURSIVE collect_strings(_)

(* Variant: each nested result is put in front of what was collected.      *)
RECURSIVE ExtendAllInFront(_, _)
ExtendAllInFront(acc, items) ==
    IF items = <<>> THEN acc
    ELSE ExtendAllInFront(collect_strings(Head(items)) \o acc, Tail(items))

RECURSIVE ExtendAll(_, _)
(* The two loops: strings.extend(collect_strings(x)) for each x in order.  *)
ExtendAll(acc, items) ==
    IF items = <<>> THEN acc
    ELSE ExtendAll(acc \o collect_strings(Head(items)), Tail(items))

collect_strings(o) ==
    CASE o.t = "str"  -> <<o.s>>
      [] o.t = "dict" -> ExtendAll(<<>>, o.kids)
      [] o.t = "list" -> ExtendAll(<<>>, o.kids)
      [] OTHER        -> <<>>

-----------------------------------------------------------------------------
(* Files.  state is "absent", "unreadable" (open or decoding fails),       *)
(* "malformed" (json.load raises JSONDecodeError) or "ok".  A text file    *)
(* holds lines, a JSON input its parsed value, traders.csv its rows of     *)
(* fields, emails.json the members of its top-level object as written.     *)

File(st, ls, val, rs, ms) ==
    [state |-> st, lines |-> ls, json |-> val, rows |-> rs, members |-> ms]

NoFile == File("absent", <<>>, Null, <<>>, <<>>)

Unreadable == File("unreadable", <<>>, Null, <<>>, <<>>)

Malformed == File("malformed", <<>>, Null, <<>>, <<>>)

TextFile(ls) == File("ok", ls, Null, <<>>, <<>>)

JsonFile(val) == File("ok", <<>>, val, <<>>, <<>>)

CsvFile(rs) == File("ok", <<>>, Null, rs, <<>>)

EmailsFile(ms) == File("ok", <<>>, Null, <<>>, ms)

(* os.path.isfile *)
IsFile(name) == files[name].state # "absent"

Msg(tag, chars) == [msg |-> tag, arg |-> chars]

(* process_traders returns into main, or to its caller when called alone.  *)
AfterTraders == IF entry = "main" THEN "part2" ELSE "exit"

-----------------------------------------------------------------------------
(* main, first part: the presence check of traders.txt and traders.json.   *)

Main_Part1 ==
    /\ pc = "main"
    /\ stdout' = Append(stdout, Msg("banner_part1", <<>>))
    /\ IF ~IsFile("traders_txt") \/ ~IsFile("traders_json")
       THEN /\ stderr' = Append(stderr, Msg("missing_for_traders", <<>>))
            /\ pc' = "part2"
            /\ calls' = calls
       ELSE /\ stderr' = stderr
            /\ pc' = "pt_read"
            /\ calls' = Append(calls, "process_traders")
    /\ UNCHANGED <<entry, files, raised, inn_list, organizations, org_index,
                   idx, messages, publishers_emails, obj, strings>>

-----------------------------------------------------------------------------
(* process_traders *)

(* Variant: the lines are stripped but blank ones are kept.                *)
StripLinesKeepBlank(ls) == [i \in 1..Len(ls) |-> Strip(ls[i])]

(* [line.strip() for line in txt_file if line.strip()] *)
RECURSIVE StripLines(_)
StripLines(ls) ==
    IF ls = <<>> THEN <<>>
    ELSE IF Strip(Head(ls)) # <<>>
         THEN <<Strip(Head(ls))>> \o StripLines(Tail(ls))
         ELSE StripLines(Tail(ls))

(* Reading the request list, and the empty-list check.                     *)
PT_ReadTxt ==
    /\ pc = "pt_read"
    /\ LET f == files["traders_txt"] IN
       CASE f.state = "absent" ->
              /\ stderr' = Append(stderr, Msg("txt_not_found", <<>>))
              /\ pc' = AfterTraders
              /\ UNCHANGED inn_list
         [] f.state # "absent" /\ f.state # "ok" ->
              /\ stderr' = Append(stderr, Msg("txt_read_error", <<>>))
              /\ pc' = AfterTraders
              /\ UNCHANGED inn_list
         [] f.state = "ok" ->
              /\ inn_list' = StripLines(f.lines)
              /\ IF StripLines(f.lines) = <<>>
                 THEN /\ stderr' = Append(stderr, Msg("txt_empty", <<>>))
                      /\ pc' = AfterTraders
                 ELSE /\ stderr' = stderr
                      /\ pc' = "pt_load"
    /\ UNCHANGED <<entry, files, raised, stdout, organizations, org_index,
                   idx, messages, publishers_emails, obj, strings, calls>>

(* Position after the index loop has handled the elements before i.        *)
IndexPc(orgs, i) == IF i > Len(orgs.kids) THEN "pt_open" ELSE "pt_index"

(* json.load of the reference file, and the isinstance(list) check.        *)
PT_LoadJson ==
    /\ pc = "pt_load"
    /\ LET f == files["traders_json"] IN
       CASE f.state = "absent" ->
              /\ stderr' = Append(stderr, Msg("json_not_found", <<>>))
              /\ pc' = AfterTraders
              /\ UNCHANGED <<organizations, org_index, idx>>
         [] f.state = "malformed" ->
              /\ stderr' = Append(stderr, Msg("json_decode_error", <<>>))
              /\ pc' = AfterTraders
              /\ UNCHANGED <<organizations, org_index, idx>>
         [] f.state = "unreadable" ->
              /\ stderr' = Append(stderr, Msg("json_read_error", <<>>))
              /\ pc' = AfterTraders
              /\ UNCHANGED <<organizations, org_index, idx>>
         [] f.state = "ok" ->
              /\ organizations' = f.json
              /\ IF f.json.t # "list"
                 THEN /\ stderr' = Append(stderr, Msg("json_not_array", <<>>))
                      /\ pc' = AfterTraders
                      /\ UNCHANGED <<org_index, idx>>
                 ELSE /\ stderr' = stderr
                      /\ org_index' = <<>>
                      /\ idx' = 1
                      /\ pc' = IndexPc(f.json, 1)
    /\ UNCHANGED <<entry, files, raised, stdout, inn_list, messages,
                   publishers_emails, obj, strings, calls>>

(* Variant: the first record of an inn is kept (setdefault).               *)
IndexPutFirstWins(index, inn_value, org) ==
    IF DictHas(index, inn_value) THEN index ELSE DictSet(index, inn_value, org)

(* org_index[inn_value] = org: a later record of the same inn replaces the *)
(* earlier one as a whole.                                                 *)
IndexPut(index, inn_value, org) == DictSet(index, inn_value, org)

(* One pass of the loop that builds org_index.  org.get on a value that is *)
(* no mapping raises AttributeError, an unhashable inn raises TypeError;   *)
(* neither is inside a try block.                                          *)
PT_Index ==
    /\ pc = "pt_index"
    /\ LET org == organizations.kids[idx]
           inn_value == Get(org, "inn")
       IN  IF org.t # "dict"
           THEN /\ raised' = "AttributeError"
                /\ pc' = "crashed"
                /\ UNCHANGED <<org_index, idx>>
           ELSE IF ~Truthy(inn_value)
           THEN /\ idx' = idx + 1
                /\ pc' = IndexPc(organizations, idx + 1)
                /\ UNCHANGED <<org_index, raised>>
           ELSE IF ~Hashable(inn_value)
           THEN /\ raised' = "TypeError"
                /\ pc' = "crashed"
                /\ UNCHANGED <<org_index, idx>>
           ELSE /\ org_index' = IndexPut(org_index, inn_value, org)
                /\ idx' = idx + 1
                /\ pc' = IndexPc(organizations, idx + 1)
                /\ UNCHANGED raised
    /\ UNCHANGED <<entry, files, stdout, stderr, inn_list, organizations,
                   messages, publishers_emails, obj, strings, calls>>

(* The text csv.writer writes for one field: a str as is, None as the      *)
(* empty string, a number as str(number).                                  *)
CsvField(v) ==
    CASE v.t = "str"  -> v.s
      [] v.t = "null" -> <<>>
      [] v.t = "num"  -> IntToStr(v.n)
      [] v.t = "bool" -> IF v.n = 1 THEN <<"T","r","u","e">>
                                    ELSE <<"F","a","l","s","e">>

CsvHeader == <<<<"i","n","n">>, <<"o","g","r","n">>,
               <<"a","d","d","r","e","s","s">>>>

(* org.get(name, ''): the field, or the empty string when it is absent.    *)
GetOrEmpty(org, name) == IF HasField(org, name) THEN Get(org, name) ELSE Str(<<>>)

(* The row written for a request entry found in the index.                 *)
CsvRow(inn, org) ==
    <<inn, CsvField(GetOrEmpty(org, "ogrn")), CsvField(GetOrEmpty(org, "address"))>>

(* org_index.get(inn): the request entry is a str.                         *)
Lookup(index, inn) == IF DictHas(index, Str(inn)) THEN DictGet(index, Str(inn)) ELSE Null

(* What is left of the rows written so far when a write or the flush at   *)
(* close fails: the complete rows that had reached the file, all of them   *)
(* when the failure is not one of the device.                              *)
Flushed(rows) == {SubSeq(rows, 1, n) : n \in 0..Len(rows)}

(* Opening traders.csv for writing truncates it; the header is written.    *)
(* The open can fail (the file is left as it was), and so can the write    *)
(* (the file is left empty); both end in the except branch.                *)
PT_OpenCsv ==
    /\ pc = "pt_open"
    /\ \E outcome \in {"ok", "open_fails", "write_fails"} :
         CASE outcome = "ok" ->
                /\ files' = [files EXCEPT !["traders_csv"] = CsvFile(<<CsvHeader>>)]
                /\ idx' = 1
                /\ pc' = "pt_rows"
                /\ stderr' = stderr
           [] outcome = "open_fails" ->
                /\ stderr' = Append(stderr, Msg("csv_write_error", <<>>))
                /\ pc' = AfterTraders
                /\ UNCHANGED <<files, idx>>
           [] outcome = "write_fails" ->
                /\ files' = [files EXCEPT !["traders_csv"] = CsvFile(<<>>)]
                /\ stderr' = Append(stderr, Msg("csv_write_error", <<>>))
                /\ pc' = AfterTraders
                /\ UNCHANGED idx
    /\ UNCHANGED <<entry, raised, stdout, inn_list, organizations, org_index,
                   messages, publishers_emails, obj, strings, calls>>

(* The row can be encoded for the file.                                    *)
RowEncodable(row) == \A j \in DOMAIN row : Encodable(row[j])

(* One pass of the loop over inn_list: a row, or a warning.  writerow      *)
(* raises when the row cannot be encoded and may raise when the device     *)
(* refuses the write; the except branch then ends the loop.                *)
PT_Row ==
    /\ pc = "pt_rows"
    /\ LET inn == inn_list[idx]
           org == Lookup(org_index, inn)
       IN  IF Truthy(org)
           THEN \E ok \in {b \in BOOLEAN : b => RowEncodable(CsvRow(inn, org))} :
                  IF ok
                  THEN /\ files' = [files EXCEPT !["traders_csv"].rows =
                                                    Append(@, CsvRow(inn, org))]
                       /\ stderr' = stderr
                       /\ idx' = idx + 1
                       /\ pc' = IF idx + 1 > Len(inn_list) THEN "pt_done" ELSE "pt_rows"
                  ELSE /\ \E left \in Flushed(files["traders_csv"].rows) :
                             files' = [files EXCEPT !["traders_csv"].rows = left]
                       /\ stderr' = Append(stderr, Msg("csv_write_error", <<>>))
                       /\ pc' = AfterTraders
                       /\ UNCHANGED idx
           ELSE /\ stderr' = Append(stderr, Msg("org_not_found", inn))
                /\ files' = files
                /\ idx' = idx + 1
                /\ pc' = IF idx + 1 > Len(inn_list) THEN "pt_done" ELSE "pt_rows"
    /\ UNCHANGED <<entry, raised, stdout, inn_list, organizations, org_index,
                   messages, publishers_emails, obj, strings, calls>>

(* The end of the with block closes the file; when the flush succeeds the  *)
(* success message is printed, otherwise the except branch reports it.     *)
PT_Done ==
    /\ pc = "pt_done"
    /\ \E ok \in BOOLEAN :
         IF ok
         THEN /\ stdout' = Append(stdout, Msg("done_traders", <<>>))
              /\ UNCHANGED <<files, stderr>>
         ELSE /\ \E left \in Flushed(files["traders_csv"].rows) :
                    files' = [files EXCEPT !["traders_csv"].rows = left]
              /\ stderr' = Append(stderr, Msg("csv_write_error", <<>>))
              /\ UNCHANGED stdout
    /\ pc' = AfterTraders
    /\ UNCHANGED <<entry, raised, inn_list, organizations,
                   org_index, idx, messages, publishers_emails, obj, strings, calls>>

-----------------------------------------------------------------------------
(* main, second part: the presence check of the messages file.             *)

Main_Part2 ==
    /\ pc = "part2"
    /\ stdout' = Append(stdout, Msg("banner_part2", <<>>))
    /\ IF ~IsFile("messages_json")
       THEN /\ stderr' = Append(stderr, Msg("missing_for_emails", <<>>))
            /\ pc' = "exit"
            /\ calls' = calls
       ELSE /\ stderr' = stderr
            /\ pc' = "ee_load"
            /\ calls' = Append(calls, "extract_emails")
    /\ UNCHANGED <<entry, files, raised, inn_list, organizations, org_index,
                   idx, messages, publishers_emails, obj, strings>>

-----------------------------------------------------------------------------
(* extract_emails *)

ScanPc(msgs, i) == IF i > Len(msgs.kids) THEN "ee_write" ELSE "ee_scan"

(* Variant: a mapping passes the check too.                                *)
IsArrayOrMapping(val) == val.t \in {"list", "dict"}

(* isinstance(messages, list) *)
IsArray(val) == val.t = "list"

(* json.load of the messages file, and the isinstance(list) check.         *)
EE_Load ==
    /\ pc = "ee_load"
    /\ LET f == files["messages_json"] IN
       CASE f.state = "absent" ->
              /\ stderr' = Append(stderr, Msg("dataset_not_found", <<>>))
              /\ pc' = "exit"
              /\ UNCHANGED <<messages, publishers_emails, idx>>
         [] f.state = "malformed" ->
              /\ stderr' = Append(stderr, Msg("dataset_decode_error", <<>>))
              /\ pc' = "exit"
              /\ UNCHANGED <<messages, publishers_emails, idx>>
         [] f.state = "unreadable" ->
              /\ stderr' = Append(stderr, Msg("dataset_read_error", <<>>))
              /\ pc' = "exit"
              /\ UNCHANGED <<messages, publishers_emails, idx>>
         [] f.state = "ok" ->
              /\ messages' = f.json
              /\ IF ~IsArray(f.json)
                 THEN /\ stderr' = Append(stderr, Msg("dataset_not_array", <<>>))
                      /\ pc' = "exit"
                      /\ UNCHANGED <<publishers_emails, idx>>
                 ELSE /\ stderr' = stderr
                      /\ publishers_emails' = <<>>
                      /\ idx' = 1
                      /\ pc' = ScanPc(f.json, 1)
    /\ UNCHANGED <<entry, files, raised, stdout, inn_list, organizations,
                   org_index, obj, strings, calls>>

(* for email in found_emails: the_set.add(email) *)
RECURSIVE AddEach(_, _)
AddEach(set, found) ==
    IF found = <<>> THEN set
    ELSE AddEach(set \cup {Head(found)}, Tail(found))

(* for text in all_strings: every match of the text is added to the set.   *)
RECURSIVE ScanTexts(_, _)
ScanTexts(set, texts) ==
    IF texts = <<>> THEN set
    ELSE ScanTexts(AddEach(set, find_emails_in_text(Head(texts))), Tail(texts))

(* Variant: the set is created anew for every record.                      *)
EnsureKeyAnew(pe, key) == DictSet(pe, key, {})

(* if publisher_inn not in publishers_emails: ... = set() *)
EnsureKey(pe, key) == IF DictHas(pe, key) THEN pe ELSE DictSet(pe, key, {})

(* Variant: the key is created only when an address is found.             *)
AccumulateLazily(pe, key, record) ==
    LET found == ScanTexts({}, collect_strings(record))
    IN  IF found = {} THEN pe
        ELSE DictSet(pe, key, (IF DictHas(pe, key) THEN DictGet(pe, key) ELSE {}) \cup found)

(* The whole loop body for a record that is kept.                          *)
Accumulate(pe, key, record) ==
    LET pe1 == EnsureKey(pe, key)
    IN  DictSet(pe1, key, ScanTexts(DictGet(pe1, key), collect_strings(record)))

(* Variant: only an absent (None) publisher_inn is skipped.                *)
SkippedIfNone(publisher_inn) == publisher_inn.t = "null"

(* if not publisher_inn: continue *)
Skipped(publisher_inn) == ~Truthy(publisher_inn)

(* One pass of the loop over the messages.  A record read from a file is   *)
(* never nested deep enough for collect_strings to exhaust the recursion   *)
(* limit: json.load fails before that, which EE_Load reports.              *)
(* record.get on a value that is no mapping raises AttributeError, an      *)
(* unhashable publisher_inn raises TypeError at the membership test;       *)
(* neither is inside a try block.                                          *)
EE_Scan ==
    /\ pc = "ee_scan"
    /\ LET record == messages.kids[idx]
           publisher_inn == Get(record, "publisher_inn")
       IN  IF record.t # "dict"
           THEN /\ raised' = "AttributeError"
                /\ pc' = "crashed"
                /\ UNCHANGED <<publishers_emails, idx>>
           ELSE IF Skipped(publisher_inn)
           THEN /\ idx' = idx + 1
                /\ pc' = ScanPc(messages, idx + 1)
                /\ UNCHANGED <<publishers_emails, raised>>
           ELSE IF ~Hashable(publisher_inn)
           THEN /\ raised' = "TypeError"
                /\ pc' = "crashed"
                /\ UNCHANGED <<publishers_emails, idx>>
           ELSE /\ publishers_emails' = Accumulate(publishers_emails, publisher_inn, record)
                /\ idx' = idx + 1
                /\ pc' = ScanPc(messages, idx + 1)
                /\ UNCHANGED raised
    /\ UNCHANGED <<entry, files, stdout, stderr, inn_list, organizations,
                   org_index, messages, obj, strings, calls>>

(* list(emails_set): the elements once each, in the set's iteration order, *)
(* which is any order.                                                     *)
Orders(set) ==
    {q \in [1..Cardinality(set) -> set] : \A e \in set : \E i \in DOMAIN q : q[i] = e}

(* The name json.dump writes for a dict key: a str as is, an int as its    *)
(* digits, True/False/None as true/false/null.                             *)
JsonKey(key) ==
    CASE key.t = "str"  -> key.s
      [] key.t = "num"  -> IntToStr(key.n)
      [] key.t = "bool" -> IF key.n = 1 THEN <<"t","r","u","e">>
                                        ELSE <<"f","a","l","s","e">>
      [] key.t = "null" -> <<"n","u","l","l">>

(* The members json.dump can write for serializable_dict: one per key, in  *)
(* the dict's order.                                                       *)
RECURSIVE Serializations(_)
Serializations(pe) ==
    IF pe = <<>> THEN {<<>>}
    ELSE {<<[k |-> JsonKey(Head(pe).k), v |-> q]>> \o rest :
             q \in Orders(Head(pe).v), rest \in Serializations(Tail(pe))}

(* Every key json.dump has to write can be encoded (the addresses are      *)
(* ASCII by the pattern).                                                  *)
KeysEncodable(pe) == \A i \in DOMAIN pe : Encodable(JsonKey(pe[i].k))

(* Opening emails.json for writing truncates it; json.dump writes it.      *)
(* The open can fail (the file is left as it was); the dump fails on a key *)
(* that cannot be encoded and may fail on the device, leaving a truncated  *)
(* text that is no JSON; the close can fail with the text complete; all    *)
(* end in the except branch.                                               *)
EE_Write ==
    /\ pc = "ee_write"
    /\ \E outcome \in {"open_fails", "write_fails"}
                        \cup (IF KeysEncodable(publishers_emails)
                              THEN {"ok", "close_fails"} ELSE {}) :
         CASE outcome = "ok" ->
                /\ \E ms \in Serializations(publishers_emails) :
                      files' = [files EXCEPT !["emails_json"] = EmailsFile(ms)]
                /\ stdout' = Append(stdout, Msg("done_emails", <<>>))
                /\ stderr' = stderr
           [] outcome = "open_fails" ->
                /\ stderr' = Append(stderr, Msg("emails_write_error", <<>>))
                /\ UNCHANGED <<files, stdout>>
           [] outcome = "write_fails" ->
                /\ files' = [files EXCEPT !["emails_json"] = Malformed]
                /\ stderr' = Append(stderr, Msg("emails_write_error", <<>>))
                /\ UNCHANGED stdout
           [] outcome = "close_fails" ->
                /\ \E ms \in Serializations(publishers_emails) :
                      files' = [files EXCEPT !["emails_json"] = EmailsFile(ms)]
                /\ stderr' = Append(stderr, Msg("emails_write_error", <<>>))
                /\ UNCHANGED stdout
    /\ pc' = "exit"
    /\ UNCHANGED <<entry, raised, inn_list, organizations, org_index, idx,
                   messages, publishers_emails, obj, strings, calls>>

(* json.load of what was written: a later member replaces an earlier one   *)
(* of the same name.                                                       *)
RECURSIVE LoadMembers(_, _)
LoadMembers(d, ms) ==
    IF ms = <<>> THEN d
    ELSE LoadMembers(DictSet(d, Str(Head(ms).k), Head(ms).v), Tail(ms))

-----------------------------------------------------------------------------
(* Inputs.                                                                 *)

SeqsUpTo(S, n) == UNION {[1..k -> S] : k \in 0..n}

LineChoices == { <<"1", "\n">>, <<" ", "\f", "2", "U+00A0", "\n">>, <<"U+000B", "\n">> }

OrgA == Dict(<<"inn", "ogrn", "address">>, <<Str(<<"1">>), Str(<<"7">>), Str(<<"M">>)>>)
OrgB == Dict(<<"inn", "ogrn">>, <<Str(<<"1">>), Num(18)>>)
OrgC == Dict(<<"address", "inn">>, <<Str(<<"S">>), Str(<<"2">>)>>)
OrgD == Dict(<<"ogrn">>, <<Str(<<"9">>)>>)
OrgE == Dict(<<"inn", "ogrn">>, <<Str(<<>>), Str(<<"9">>)>>)
OrgF == Num(5)
OrgG == Dict(<<"inn">>, <<List(<<Str(<<"1">>)>>)>>)
OrgH == Dict(<<"inn", "ogrn">>, <<Str(<<"2">>), Str(<<"U+D800">>)>>)

OrgChoices == {OrgA, OrgB, OrgC, OrgD, OrgE, OrgF, OrgG, OrgH}

MailAB == <<"a", "@", "b", ".", "c", "d">>
MailEF == <<"e", "@", "f", ".", "g", "h">>
MailZ  == <<"z", "@", "z", ".", "z", "z">>
TextTwo == <<"x", " ">> \o MailAB \o <<",", " ">> \o MailEF \o <<" ">> \o MailAB
TextNone == <<"n", "o", "@", "m", ".", "x", " ", "@", "y">>

MsgA == Dict(<<"publisher_inn", "msg_text">>, <<Str(<<"1">>), Str(MailAB)>>)
MsgB == Dict(<<"publisher_inn", "msg_text", "contacts">>,
             <<Str(<<"1">>), Str(TextTwo),
               Dict(<<"support_email">>, <<List(<<Str(MailEF), Num(3)>>)>>)>>)
MsgC == Dict(<<"msg_text", "publisher_inn">>, <<Str(TextNone), Str(<<"2">>)>>)
MsgD == Dict(<<"msg_text">>, <<Str(MailZ)>>)
MsgE == Dict(<<"publisher_inn", "msg_text">>, <<Str(<<>>), Str(MailZ)>>)
MsgF == Dict(<<"publisher_inn", "msg_text">>, <<Num(7), Str(MailAB)>>)
MsgG == Dict(<<"publisher_inn", "extra">>, <<Str(<<"7">>), List(<<Str(MailEF), Null>>)>>)
MsgH == Str(MailZ)
MsgI == Dict(<<"publisher_inn", "msg_text">>, <<List(<<Str(<<"1">>)>>), Str(MailZ)>>)
MsgJ == Dict(<<"publisher_inn", "msg_text">>, <<Str(<<"U+DC00">>), Str(MailEF)>>)

MsgChoices == {MsgA, MsgB, MsgC, MsgD, MsgE, MsgF, MsgG, MsgH, MsgI, MsgJ}

TxtFiles == {NoFile, Unreadable} \cup {TextFile(ls) : ls \in SeqsUpTo(LineChoices, MaxLines)}

OrgFiles ==
    {NoFile, Unreadable, Malformed, JsonFile(OrgA)}
        \cup {JsonFile(List(os)) : os \in SeqsUpTo(OrgChoices, MaxOrgs)}

MsgFiles ==
    {NoFile, Unreadable, Malformed, JsonFile(MsgA)}
        \cup {JsonFile(List(ms)) : ms \in SeqsUpTo(MsgChoices, MaxMsgs)}

(* An emails.json left by an earlier run.                                  *)
OldEmails == EmailsFile(<<[k |-> <<"0">>, v |-> <<MailZ>>]>>)

SimpleTxt == TextFile(<<<<"1", "\n">>>>)
SimpleOrgs == JsonFile(List(<<OrgA>>))
SimpleMsgs == JsonFile(List(<<MsgA>>))

Start(e, p, txt, orgs, msgs, emails) ==
    /\ entry = e
    /\ pc = p
    /\ files = [traders_txt |-> txt, traders_json |-> orgs, traders_csv |-> NoFile,
                messages_json |-> msgs, emails_json |-> emails]
    /\ raised = "none"
    /\ stdout = <<>>
    /\ stderr = <<>>
    /\ inn_list = <<>>
    /\ organizations = Null
    /\ org_index = <<>>
    /\ idx = 0
    /\ messages = Null
    /\ publishers_emails = <<>>
    /\ calls = IF e = "main" THEN <<>> ELSE <<e>>
    /\ obj = Null
    /\ strings = <<>>

(* The cross-reference inputs vary: process_traders called by main, which  *)
(* goes on to a one-message dataset, or called alone.                      *)
InitTraders ==
    \E txt \in TxtFiles, orgs \in OrgFiles :
        \/ Start("main", "main", txt, orgs, SimpleMsgs, OldEmails)
        \/ Start("process_traders", "pt_read", txt, orgs, NoFile, NoFile)

(* The messages vary: extract_emails called by main after a skipped first  *)
(* part, or called alone.                                                  *)
InitEmails ==
    \E msgs \in MsgFiles :
        \/ Start("main", "main", NoFile, NoFile, msgs, OldEmails)
        \/ Start("extract_emails", "ee_load", NoFile, NoFile, msgs, OldEmails)

(* Every combination of present and absent inputs of main.                 *)
InitPresence ==
    \E txt \in {NoFile, SimpleTxt}, orgs \in {NoFile, SimpleOrgs},
       msgs \in {NoFile, SimpleMsgs}, emails \in {NoFile, OldEmails} :
        Start("main", "main", txt, orgs, msgs, emails)

Init == InitTraders \/ InitEmails \/ InitPresence

Next ==
    \/ Main_Part1
    \/ PT_ReadTxt
    \/ PT_LoadJson
    \/ PT_Index
    \/ PT_OpenCsv
    \/ PT_Row
    \/ PT_Done
    \/ Main_Part2
    \/ EE_Load
    \/ EE_Scan
    \/ EE_Write

Spec == Init /\ [][Next]_vars

-----------------------------------------------------------------------------
(* Properties of the cross-reference pipeline and of main.                 *)

Range(q) == {q[i] : i \in DOMAIN q}

(* The request list as the input file states it: each line stripped, the   *)
(* blank ones dropped.                                                     *)
RequestList ==
    LET ls == files["traders_txt"].lines
        NonBlank(x) == x # <<>>
    IN  SelectSeq([i \in 1..Len(ls) |-> Strip(ls[i])], NonBlank)

(* traders.csv has been opened for writing by this run.                    *)
WriteStage == files["traders_csv"].state = "ok"

(* Number of request entries the row loop has handled.                     *)
Handled == IF pc = "pt_rows" THEN idx - 1 ELSE Len(RequestList)

CsvRows == files["traders_csv"].rows

DataRows == IF CsvRows = <<>> THEN <<>> ELSE Tail(CsvRows)

InIndex(x) == \E i \in DOMAIN org_index : org_index[i].k = Str(x)

NotInIndex(x) == ~InIndex(x)

(* The identifiers of the rows and of the warnings so far.                 *)
RowIds == [j \in 1..Len(DataRows) |-> DataRows[j][1]]

WarnedIds ==
    LET IsWarning(m) == m.msg = "org_not_found"
        warned == SelectSeq(stderr, IsWarning)
    IN  [j \in 1..Len(warned) |-> warned[j].arg]

IsPrefix(p, q) == Len(p) <= Len(q) /\ \A j \in 1..Len(p) : p[j] = q[j]

SuccessPrinted == \E i \in DOMAIN stdout : stdout[i].msg = "done_traders"

(* C1 as stated: once the row loop is over, however it ended, the data     *)
(* rows after the header are exactly the request entries that are keys of  *)
(* the index, in order, and every other entry has one warning.             *)
C1_AllRowsOnceWriteStageReached ==
    (WriteStage /\ pc # "pt_rows") =>
        /\ CsvRows # <<>>
        /\ CsvRows[1] = CsvHeader
        /\ RowIds = SelectSeq(RequestList, InIndex)
        /\ WarnedIds = SelectSeq(RequestList, NotInIndex)

(* C1, amended: while the rows are written, the data rows after the header *)
(* are, in request order, exactly the handled request entries that are     *)
(* keys of the reference index, and each other handled entry has one       *)
(* not-found warning and no row; when the success message is printed this  *)
(* covers the whole request list; when a write fails, rows and warnings    *)
(* are a prefix of that; there are never more data rows than entries.      *)
C1_RowsFollowRequests ==
    WriteStage =>
        LET seen == SubSeq(RequestList, 1, Handled)
        IN  /\ inn_list = RequestList
            /\ IsPrefix(RowIds, SelectSeq(RequestList, InIndex))
            /\ IsPrefix(WarnedIds, SelectSeq(RequestList, NotInIndex))
            /\ Len(DataRows) <= Len(RequestList)
            /\ (pc \in {"pt_rows", "pt_done"} \/ SuccessPrinted) =>
                  /\ CsvRows # <<>>
                  /\ CsvRows[1] = CsvHeader
                  /\ RowIds = SelectSeq(seen, InIndex)
                  /\ WarnedIds = SelectSeq(seen, NotInIndex)

C1_Witness ==
    /\ SuccessPrinted
    /\ Len(inn_list) = 2
    /\ Len(CsvRows) = 2
    /\ \E i \in DOMAIN stderr : stderr[i].msg = "org_not_found"

(* The text of a field of a reference record, empty when it lacks it.      *)
FieldText(rec, name) == IF HasField(rec, name) THEN CsvField(Get(rec, name)) ELSE <<>>

(* C2: the ogrn and address columns of every data row are the fields of    *)
(* the last record of the reference collection whose inn is the row's      *)
(* identifier, empty for a field this record lacks (nothing is taken from  *)
(* an earlier record of the same inn); no record with a missing or empty   *)
(* inn is in the index.                                                    *)
C2_RowFieldsOfLastRecord ==
    WriteStage =>
        /\ \A j \in 2..Len(CsvRows) :
              LET orgs == organizations.kids
                  hits == {i \in 1..Len(orgs) :
                              orgs[i].t = "dict" /\ Get(orgs[i], "inn") = Str(CsvRows[j][1])}
              IN  /\ hits # {}
                  /\ CsvRows[j][2] = FieldText(orgs[SetMax(hits)], "ogrn")
                  /\ CsvRows[j][3] = FieldText(orgs[SetMax(hits)], "address")
        /\ \A i \in DOMAIN org_index :
              /\ org_index[i].k \notin {Null, Str(<<>>)}
              /\ Get(org_index[i].v, "inn") = org_index[i].k

C2_Witness ==
    /\ WriteStage
    /\ organizations.t = "list"
    /\ organizations.kids = <<OrgA, OrgB>>
    /\ Len(CsvRows) >= 2
    /\ CsvRows[2] = << <<"1">>, <<"1", "8">>, <<>> >>

(* C3: no exception leaves process_traders or extract_emails.              *)
C3_NoExceptionEscapes == raised = "none"

(* C4: when main has ended, extract_emails was called exactly if the       *)
(* messages file exists and process_traders exactly if both of its inputs  *)
(* exist, the first part being over before the second begins.              *)
C4_PipelinesIndependent ==
    (entry = "main" /\ pc \in {"exit", "crashed"}) =>
        /\ ("extract_emails" \in Range(calls)) <=> IsFile("messages_json")
        /\ ("process_traders" \in Range(calls))
              <=> (IsFile("traders_txt") /\ IsFile("traders_json"))
        /\ \A i, j \in DOMAIN calls :
              (calls[i] = "process_traders" /\ calls[j] = "extract_emails") => i < j

-----------------------------------------------------------------------------
(* Properties of the email pipeline.                                       *)

(* The record passes the publisher_inn test of the scan loop.              *)
Kept(r) == r.t = "dict" /\ Truthy(Get(r, "publisher_inn"))

(* Every address matched in some string of the record.                     *)
EmailsIn(r) ==
    UNION {Range(find_emails_in_text(x)) : x \in Range(collect_strings(r))}

(* The scan loop is running or has run to its end.                         *)
Scanning == messages.t = "list" /\ pc \in {"ee_scan", "ee_write", "exit"}

Scanned == IF pc = "ee_scan" THEN idx - 1 ELSE Len(messages.kids)

(* emails.json was written by this run.                                    *)
Written == \E i \in DOMAIN stdout : stdout[i].msg = "done_emails"

Members == files["emails_json"].members

NoDuplicate(q) == \A i, j \in DOMAIN q : q[i] = q[j] => i = j

C5_UnionPerPublisher ==
    /\ Scanning =>
          \A i \in DOMAIN publishers_emails :
              LET P == publishers_emails[i].k
                  of == {j \in 1..Scanned :
                            /\ Kept(messages.kids[j])
                            /\ PyEq(Get(messages.kids[j], "publisher_inn"), P)}
              IN  /\ publishers_emails[i].v = UNION {EmailsIn(messages.kids[j]) : j \in of}
                  /\ \A j \in DOMAIN publishers_emails :
                        PyEq(publishers_emails[j].k, P) => j = i
    /\ Written =>
          /\ Len(Members) = Len(publishers_emails)
          /\ \A i \in DOMAIN Members :
                /\ NoDuplicate(Members[i].v)
                /\ Range(Members[i].v) = publishers_emails[i].v

C5_SetsGrow ==
    \A i \in DOMAIN publishers_emails :
        /\ i \in DOMAIN publishers_emails'
        /\ publishers_emails'[i].k = publishers_emails[i].k
        /\ publishers_emails[i].v \subseteq publishers_emails'[i].v

(* C5: while and after the messages are scanned, the set of every          *)
(* publisher P is the union of the addresses matched in the strings of the *)
(* scanned records whose publisher_inn is P, whatever lies between them;   *)
(* there is one entry per publisher; the list written for P has no         *)
(* duplicate and is that set; and no step removes an address or an entry.  *)
C5_MergedPerPublisher == []C5_UnionPerPublisher /\ [][C5_SetsGrow]_vars

C5_Witness ==
    /\ Written
    /\ messages.kids = <<MsgA, MsgC, MsgB>>
    /\ publishers_emails[1].v = {MailAB, MailEF}
    /\ Len(Members[1].v) = 2

(* C6: a scan step on a record whose publisher_inn is absent or empty      *)
(* leaves the result as it is (no key created, no address added), and no   *)
(* key of the result is ever an empty identifier.                          *)
C6_SkippedRecordLeavesNoTrace ==
    /\ [](\A i \in DOMAIN publishers_emails : Truthy(publishers_emails[i].k))
    /\ [][(/\ pc = "ee_scan"
           /\ messages.kids[idx].t = "dict"
           /\ Get(messages.kids[idx], "publisher_inn") \in {Null, Str(<<>>)})
          => publishers_emails' = publishers_emails]_vars

C6_Witness ==
    /\ Written
    /\ messages.kids = <<MsgD, MsgA, MsgE>>
    /\ Len(publishers_emails) = 1
    /\ publishers_emails[1].v = {MailAB}

(* The messages file cannot be used: missing, unreadable, not JSON, or its *)
(* top-level value is no sequence.                                         *)
BadDataset ==
    \/ files["messages_json"].state # "ok"
    \/ files["messages_json"].json.t # "list"

(* C8: when the messages file cannot be used, the step that finds it out   *)
(* reports one diagnostic and ends the pipeline with every file as it was  *)
(* and without the success message.                                        *)
C8_BadInputNoOutput ==
    [][((pc = "ee_load" /\ BadDataset) \/ (pc = "part2" /\ ~IsFile("messages_json")))
       => /\ files' = files
          /\ pc' = "exit"
          /\ Len(stderr') = Len(stderr) + 1
          /\ \A i \in DOMAIN stdout' : stdout'[i].msg # "done_emails"]_vars

C8_Witness ==
    /\ pc = "exit"
    /\ "extract_emails" \in Range(calls)
    /\ files["messages_json"] = JsonFile(MsgA)
    /\ files["emails_json"] = OldEmails
    /\ stderr # <<>>
    /\ stderr[Len(stderr)].msg = "dataset_not_array"
    /\ ~Written

(* C9: reading emails.json back gives the keys of publishers_emails, each  *)
(* with a list that is, as a set, the set held in memory.                  *)
C9_RoundTrip ==
    Written =>
        LET back == LoadMembers(<<>>, Members)
        IN  /\ \A i \in DOMAIN publishers_emails :
                  \E j \in DOMAIN back :
                      /\ back[j].k = publishers_emails[i].k
                      /\ Range(back[j].v) = publishers_emails[i].v
            /\ \A j \in DOMAIN back :
                  \E i \in DOMAIN publishers_emails :
                      back[j].k = publishers_emails[i].k

(* C10: the keys of the result are exactly the publisher_inn values of the *)
(* scanned records that pass the test, and each is written with its list,  *)
(* the empty list for a publisher without any address.                     *)
C10_KeysArePublishers ==
    /\ Scanning =>
          {publishers_emails[i].k : i \in DOMAIN publishers_emails}
              = {Get(messages.kids[j], "publisher_inn") :
                    j \in {j \in 1..Scanned : Kept(messages.kids[j])}}
    /\ Written =>
          /\ Len(Members) = Len(publishers_emails)
          /\ \A i \in DOMAIN Members :
                /\ Members[i].k = JsonKey(publishers_emails[i].k)
                /\ publishers_emails[i].v = {} => Members[i].v = <<>>

C10_Witness ==
    /\ Written
    /\ \E i \in DOMAIN publishers_emails :
          /\ publishers_emails[i].k = Str(<<"2">>)
          /\ publishers_emails[i].v = {}
          /\ Members[i] = [k |-> <<"2">>, v |-> <<>>]

-----------------------------------------------------------------------------
(* collect_strings on its own, applied to every value of a bounded size.   *)

Leaves == {Str(<<"a">>), Str(<<"b">>), Num(1), Bool(1), Null}

FieldNames == <<"k1", "k2", "k3", "k4", "k5", "k6">>

RECURSIVE ValuesOfSize(_)
RECURSIVE ForestsOfSize(_)
(* The sequences of values with n nodes in all.                            *)
ForestsOfSize(n) ==
    IF n = 0 THEN {<<>>}
    ELSE UNION {{<<v>> \o f : v \in ValuesOfSize(k), f \in ForestsOfSize(n - k)} :
                   k \in 1..n}

(* The values with n nodes: a scalar, or a list or mapping of n - 1 nodes. *)
ValuesOfSize(n) ==
    (IF n = 1 THEN Leaves ELSE {})
        \cup {List(f) : f \in ForestsOfSize(n - 1)}
        \cup {Dict(SubSeq(FieldNames, 1, Len(f)), f) : f \in ForestsOfSize(n - 1)}

Values == UNION {ValuesOfSize(n) : n \in 1..MaxNodes}

(* Small values nested about as deep as the recursion limit.               *)
DeepValues ==
    {Nested(v, k) : v \in ValuesOfSize(1) \cup ValuesOfSize(2),
                    k \in (RecursionLimit - 3)..RecursionLimit}

InitCollect ==
    /\ entry = "collect_strings"
    /\ pc = "collect"
    /\ obj \in Values \cup DeepValues
    /\ strings = <<>>
    /\ files = [traders_txt |-> NoFile, traders_json |-> NoFile, traders_csv |-> NoFile,
                messages_json |-> NoFile, emails_json |-> NoFile]
    /\ raised = "none"
    /\ stdout = <<>>
    /\ stderr = <<>>
    /\ inn_list = <<>>
    /\ organizations = Null
    /\ org_index = <<>>
    /\ idx = 0
    /\ messages = Null
    /\ publishers_emails = <<>>
    /\ calls = <<"collect_strings">>

(* The nested calls a call of collect_strings stacks up: one frame per     *)
(* nesting level, and in the frame of a mapping the call of obj.values(),  *)
(* which the interpreter counts as well.                                   *)
RECURSIVE CallDepth(_)
CallDepth(v) ==
    IF v.kids = <<>> THEN (IF v.t = "dict" THEN 2 ELSE 1)
    ELSE 1 + v.n + SetMax({CallDepth(v.kids[i]) : i \in 1..Len(v.kids)})

(* A call from the top level: with the caller's frame the recursion must   *)
(* stay within the limit, or the interpreter raises RecursionError.        *)
Collect ==
    /\ pc = "collect"
    /\ IF CallDepth(obj) + 1 > RecursionLimit
       THEN /\ raised' = "RecursionError"
            /\ pc' = "crashed"
            /\ UNCHANGED strings
       ELSE /\ strings' = collect_strings(obj)
            /\ pc' = "collected"
            /\ UNCHANGED raised
    /\ UNCHANGED <<entry, files, stdout, stderr, inn_list, organizations,
                   org_index, idx, messages, publishers_emails, calls, obj>>

NextCollect == Collect

SpecCollect == InitCollect /\ [][NextCollect]_vars

(* The index paths from the value to each of its string values.            *)
RECURSIVE StringPaths(_)
StringPaths(v) ==
    IF v.t = "str" THEN {<<>>}
    ELSE UNION {{<<i>> \o p : p \in StringPaths(v.kids[i])} : i \in 1..Len(v.kids)}

RECURSIVE NodeAt(_, _)
NodeAt(v, p) == IF p = <<>> THEN v ELSE NodeAt(v.kids[Head(p)], Tail(p))

(* p comes before q in a depth-first walk that takes children in order.    *)
Before(p, q) ==
    \E k \in 1..Len(p) :
        /\ k <= Len(q)
        /\ p[k] < q[k]
        /\ \A j \in 1..(k - 1) : p[j] = q[j]

(* The strings are those of the string values of obj, in path order.       *)
StringsInPathOrder ==
    LET paths == StringPaths(obj)
    IN  /\ Len(strings) = Cardinality(paths)
        /\ \A p \in paths :
              strings[1 + Cardinality({q \in paths : Before(q, p)})] = NodeAt(obj, p).s

(* C7 as stated: on every value collect_strings ends without raising and   *)
(* returns exactly the string values in depth-first order.                 *)
C7_TotalOnEveryValue ==
    pc # "collect" => (raised = "none" /\ pc = "collected" /\ StringsInPathOrder)

(* C7 within the recursion limit: on a value with fewer levels of nesting  *)
(* than the limit, collect_strings ends without raising and returns one    *)
(* entry per string value of the structure and nothing else, each at the   *)
(* place its path has in the depth-first order (the empty list when there  *)
(* is no string); on a deeper value it raises RecursionError.              *)
C7_StringsDepthFirst ==
    pc # "collect" =>
        IF CallDepth(obj) < RecursionLimit
        THEN raised = "none" /\ pc = "collected" /\ StringsInPathOrder
        ELSE raised = "RecursionError" /\ pc = "crashed"

C7_Witness ==
    /\ pc = "collected"
    /\ obj = List(<<Dict(<<"k1">>, <<Str(<<"b">>)>>), Str(<<"a">>)>>)
    /\ strings = << <<"b">>, <<"a">> >>

====
